---------------------------- MODULE Spec2Model ----------------------------
(***************************************************************************)
(* Multi-variant run orchestrator of run_dart_sequence.py: the soil        *)
(* reference file maket.xml with its backup, the sequence output           *)
(* directory, the child processes of the single run and of the sequence    *)
(* run, and the control flow of run_for_all_soils.                         *)
(***************************************************************************)
EXTENDS Integers, Sequences, FiniteSets, TLC

(* ------------------------------ bounds -------------------------------- *)
\* largest number of valid soil folders an invocation discovers
MaxSoils == 2
\* number of sequence_<n> directories one sequence run writes
MaxSeq == 1
\* largest number of output lines a sequence child prints
MaxLines == 2

(* ------------------------------ names --------------------------------- *)
\* a file or folder name is a sequence of characters
AllSoils == << <<"a">>, <<"b">>, <<"d">> >>
Digits == <<"0", "1", "2", "3">>
SeqPrefix == <<"s", "e", "q", "u", "e", "n", "c", "e", "_">>
NumStr(n) == <<Digits[n + 1]>>

\* the folder name the engine writes for sequence number n
EngineDir(n) == SeqPrefix \o NumStr(n)

\* f"sequence_{soil_name}_{seq_num}"
QualifiedName(soil_name, seq_num) == SeqPrefix \o soil_name \o <<"_">> \o seq_num

\* Python's  s in item  on strings
Contains(s, item) ==
    \E k \in 0..(Len(item) - Len(s)) : SubSeq(item, k + 1, k + Len(s)) = s

\* item.startswith(p)
StartsWith(item, p) == Len(item) >= Len(p) /\ SubSeq(item, 1, Len(p)) = p

\* item.split("_")[-1]
LastPart(item) ==
    LET us == {k \in 1..Len(item) : item[k] = "_"}
        last == IF us = {} THEN 0 ELSE CHOOSE k \in us : \A m \in us : m <= k
    IN SubSeq(item, last + 1, Len(item))

\* item.startswith("sequence_") and not any(s in item for s in all_soils)
Unqualified(item, all_soils) ==
    /\ StartsWith(item, SeqPrefix)
    /\ ~ \E k \in 1..Len(all_soils) : Contains(all_soils[k], item)

(* ------------------------------ state --------------------------------- *)
VARIABLES
    pc,             \* position of run_for_all_soils
    soils,          \* the list get_available_soils returned
    i,              \* loop index of  for i, soil in enumerate(soils)  (0-based)
    all_successful, \* the flag of the same name
    result,         \* return value of run_for_all_soils, "none" before it returns
    attempt,        \* per variant: what its iteration called and got back
    maket,          \* ident of OpticalPropertyLink in input/maket.xml
    backup,         \* content of maket.xml.backup, NoFile when absent
    seqDir,         \* whether <simulation>/sequence exists
    fs,             \* the folders under <simulation>/sequence: name -> content
    todo,           \* the items of the os.listdir snapshot still to visit
    child,          \* the child process of the running phase
    pipe,           \* lines the child printed that were not read yet
    emitted,        \* number of lines the child printed
    written,        \* number of sequence_<n> folders the child wrote
    acks,           \* newlines written to the child's stdin
    nRestore,       \* calls of restore_original_maket_xml in this invocation
    nSweep,         \* calls of check_and_fix_sequence_folders in this invocation
    unmoved,        \* the folders safe_rename_directory returned False for in
                    \* rename_sequence_folders, with what they held then
    save_result_to_tif_json, \* config['simulation_settings']['save_result_to_tif_json']
    exported,       \* whether main called save_tiff_and_props
    position_file,  \* the file at position_txt_path: its lines, each split in fields
    tree_count,     \* what count_trees_in_position_file returned, <<>> before
    scales,         \* what read_scale_from_positions returned, <<>> before
    multi_sol,      \* config['simulation_settings']['multi_sol']
    soil_root,      \* the directory at soil_factor_path with its entries
    phase_xml,      \* input/phase.xml: the spectral bands it declares
    discovered,     \* what get_available_soils returned and printed
    nbr_of_sequence, \* config['nbr_of_sequence']
    params_to_vary, \* config['parameters_to_vary']
    seed,           \* state of the random generator when create_sequence_xml starts
    gen_pc,         \* position of the preparation (prepare_simulation.py)
    coeff_diff,     \* input/coeff_diff.xml, NoFile when absent
    sequence_xml,   \* sequence.xml, NoFile when absent
    temp_values,    \* the temperature table generate_random_values returned
    gen_result      \* how create_sequence_xml ended

\* the state of run_for_all_soils and of the simulation directory
runVars == <<pc, soils, i, all_successful, result, attempt, maket, backup,
             seqDir, fs, todo, child, pipe, emitted, written, acks, nRestore, nSweep,
             unmoved, save_result_to_tif_json, exported>>
\* the position file and its readers
posVars == <<position_file, tree_count, scales>>
\* the inputs of soil discovery
soilInputs == <<multi_sol, soil_root, phase_xml>>
\* the rest of the configuration, and the files the preparation writes
prepVars == <<nbr_of_sequence, params_to_vary, seed, gen_pc, coeff_diff,
              sequence_xml, temp_values, gen_result>>
\* everything outside run_for_all_soils
genVars == <<posVars, soilInputs, discovered, prepVars>>

\* the export setting of main and what main did with it
mainVars == <<save_result_to_tif_json, exported>>

vars == <<runVars, genVars>>

\* content of a file that does not exist
NoFile == <<>>
\* ident of OpticalPropertyLink before anything patched it
OrigIdent == <<"o", "r", "i", "g">>
\* f"soil_{soil_name}"
SoilIdent(soil_name) == <<"s", "o", "i", "l", "_">> \o soil_name
\* no process
NoChild == [status |-> "none", code |-> 0, open |-> FALSE]
\* the Popen object is gone with the function that held it
Dropped ==
    /\ pipe' = <<>>
    /\ emitted' = 0
    /\ written' = 0
    /\ acks' = 0

\* content of an output folder: the variant (0-based index) whose sequence run
\* wrote it and its sequence number
Content(by, num) == [by |-> by, num |-> num]

\* the record of one variant's iteration: the outcome of the patch ("none"
\* before it), the values run_simulation and run_sequence returned (<<>> when
\* not called, or not returned), and which of the two hit its timeout
NoAttempt == [patch |-> "none", sim |-> <<>>, seq |-> <<>>, timeout |-> "none"]

orchVars == <<soils, i, all_successful, result, attempt, nRestore, nSweep>>
fileVars == <<maket, backup>>
dirVars == <<seqDir, fs, todo>>
childVars == <<child, pipe, emitted, written, acks>>
\* the pipes and counters of a sequence child
pipeVars == <<pipe, emitted, written, acks>>

\* soils[i] with Python's 0-based index
Soil(k) == soils[k + 1]

\* a file that is not there, for the files read line by line
MissingFile == [exists |-> FALSE, lines |-> <<>>]
\* a directory that is not there
MissingDir == [exists |-> FALSE, entries |-> <<>>]
\* input/phase.xml absent
MissingPhase == [exists |-> FALSE, bands |-> 0]
\* get_available_soils was not called
NotCalled == [called |-> FALSE, none |-> FALSE, list |-> <<>>, warned |-> {}]
\* no parameter is varied
NoParams == [scale |-> FALSE, soil_temperature |-> FALSE, tree_temperature |-> FALSE,
             chlorophyl |-> FALSE, water_thickness |-> FALSE]

\* nothing was prepared or discovered yet
PrepIdle ==
    /\ tree_count = <<>>
    /\ scales = <<>>
    /\ discovered = NotCalled
    /\ gen_pc = "idle"
    /\ coeff_diff = NoFile
    /\ sequence_xml = NoFile
    /\ temp_values = <<>>
    /\ gen_result = "none"

\* run_for_all_soils is not running
RunIdle ==
    /\ pc = "idle"
    /\ soils = <<>>
    /\ i = 0
    /\ all_successful = TRUE
    /\ result = "none"
    /\ attempt = <<>>
    /\ maket = OrigIdent
    /\ backup = NoFile
    /\ seqDir = FALSE
    /\ fs = <<>>
    /\ todo = {}
    /\ child = NoChild
    /\ pipe = <<>>
    /\ emitted = 0
    /\ written = 0
    /\ acks = 0
    /\ nRestore = 0
    /\ nSweep = 0
    /\ unmoved = {}
    /\ save_result_to_tif_json = FALSE
    /\ exported = FALSE

Init ==
    /\ position_file = MissingFile
    /\ multi_sol = TRUE
    /\ soil_root = MissingDir
    /\ phase_xml = MissingPhase
    /\ nbr_of_sequence = 0
    /\ params_to_vary = NoParams
    /\ seed = 0
    /\ PrepIdle
    /\ pc = "idle"
    /\ soils = <<>>
    /\ i = 0
    /\ all_successful = TRUE
    /\ result = "none"
    /\ attempt = <<>>
    /\ maket = OrigIdent
    /\ backup = NoFile
    /\ seqDir \in BOOLEAN
    /\ fs = <<>>
    /\ todo = {}
    /\ child = NoChild
    /\ pipe = <<>>
    /\ emitted = 0
    /\ written = 0
    /\ acks = 0
    /\ nRestore = 0
    /\ nSweep = 0
    /\ unmoved = {}
    /\ save_result_to_tif_json = FALSE
    /\ exported = FALSE

(* --------------------- run_for_all_soils: entry ------------------------ *)
\* main calls run_for_all_soils when multi_sol is set (lines 543-544), and
\* get_available_soils gives the valid soil folders in listing order
Start ==
    /\ pc = "idle"
    /\ multi_sol
    /\ \E n \in 0..MaxSoils :
        /\ soils' = SubSeq(AllSoils, 1, n)
        /\ attempt' = [k \in 1..n |-> NoAttempt]
        /\ pc' = IF n = 0 THEN "single" ELSE "loop"
    /\ UNCHANGED <<i, all_successful, result, nRestore, nSweep, fileVars, dirVars,
                   childVars>>
    /\ UNCHANGED <<unmoved, mainVars, genVars>>

(* ------------------- update_maket_xml_soil (patch) --------------------- *)
\* the backup copied without the existence test
BackupAlways(b, m) == m

\* if not os.path.exists(backup_path): shutil.copy2(maket_path, backup_path)
BackupOnce(b, m) == IF b = NoFile THEN m ELSE b

\* all_successful = False; continue
SkipVariant(rec) ==
    /\ attempt' = [attempt EXCEPT ![i + 1] = rec]
    /\ all_successful' = FALSE
    /\ i' = i + 1
    /\ pc' = "loop"

\* one call of update_maket_xml_soil(simulation_path, soils[i]) at the top of
\* the loop body, with the caller's reaction to its return value
Patch ==
    /\ pc = "loop"
    /\ i < Len(soils)
    /\ \/ \* maket.xml missing, or copy2 raised: caught, returns False
          /\ SkipVariant([attempt[i + 1] EXCEPT !.patch = "failed"])
          /\ UNCHANGED <<maket, backup>>
       \/ \* parse error, no OpticalPropertyLink, or write error: returns False
          /\ backup' = BackupOnce(backup, maket)
          /\ SkipVariant([attempt[i + 1] EXCEPT !.patch = "failed"])
          /\ UNCHANGED maket
       \/ \* returns True
          /\ backup' = BackupOnce(backup, maket)
          /\ maket' = SoilIdent(Soil(i))
          /\ pc' = "relocate"
          /\ attempt' = [attempt EXCEPT ![i + 1].patch = "ok"]
          /\ UNCHANGED <<i, all_successful>>
    /\ child' = NoChild
    /\ UNCHANGED <<soils, result, nRestore, nSweep, dirVars, pipeVars>>
    /\ UNCHANGED <<unmoved, mainVars, genVars>>

\* update_maket.py: update_maket_xml, run when the simulation is prepared,
\* before the orchestrator; it writes the ident determine_soil_name returns ("soil", or
\* the first soil_ ident of coeff_diff.xml)
PrepIdents == {<<"s", "o", "i", "l">>}

UpdateMaketXml ==
    /\ pc = "idle"
    /\ backup' = BackupOnce(backup, maket)
    /\ \/ \E soil_name \in PrepIdents : maket' = soil_name
       \/ \* parse or write error: returns False
          UNCHANGED maket
    /\ UNCHANGED <<pc, orchVars, dirVars, childVars>>
    /\ UNCHANGED <<unmoved, mainVars, genVars>>

\* the for loop is exhausted
LoopExit ==
    /\ pc = "loop"
    /\ i = Len(soils)
    /\ pc' = "restore"
    /\ child' = NoChild
    /\ UNCHANGED <<orchVars, fileVars, dirVars, pipeVars>>
    /\ UNCHANGED <<unmoved, mainVars, genVars>>

(* ----------------------- the output directory ------------------------- *)
\* the folders of a listing that the rename loops pick:
\* item.startswith("sequence_") and not any(s in item for s in all_soils)
UnqualifiedItems(f, all_soils) == {d \in DOMAIN f : Unqualified(d, all_soils)}

\* f with folder d removed (shutil.rmtree(d))
Removed(f, d) == [x \in DOMAIN f \ {d} |-> f[x]]

\* f with folder new_path holding what old_path holds (shutil.copytree)
Copied(f, old_path, new_path) ==
    [x \in DOMAIN f \cup {new_path} |-> IF x = new_path THEN f[old_path] ELSE f[x]]

\* what the filesystem may answer to safe_rename_directory
RenameOutcomes == {"renamed", "copied", "copied_kept", "failed"}

\* safe_rename_directory(old_path, new_path): the folders afterwards.
\*   renamed      os.rename succeeded
\*   copied       os.rename raised, copytree and rmtree(old_path) succeeded
\*   copied_kept  os.rename raised, copytree succeeded, rmtree(old_path) raised
\*   failed       os.rename raised and the copy raised: returns False
SafeRenameDirectory(f, old_path, new_path, outcome) ==
    CASE outcome = "renamed" -> Removed(Copied(f, old_path, new_path), old_path)
      [] outcome = "copied" -> Removed(Copied(f, old_path, new_path), old_path)
      [] outcome = "copied_kept" -> Copied(f, old_path, new_path)
      [] OTHER -> f

\* the body of rename_sequence_folders' loop for one item of the listing:
\* an existing target is removed first; when that removal raises the item is
\* skipped (continue)
RenameOne(f, item, soil_name, rmtree_ok, outcome) ==
    LET new_path == QualifiedName(soil_name, LastPart(item))
    IN IF new_path \in DOMAIN f /\ ~rmtree_ok
       THEN f
       ELSE SafeRenameDirectory(Removed(f, new_path), item, new_path, outcome)

\* the body of check_and_fix_sequence_folders' loop for one unnamed folder:
\* an existing target makes it skip the folder
FixOne(f, folder, last_soil, outcome) ==
    LET new_path == QualifiedName(last_soil, LastPart(folder))
    IN IF new_path \in DOMAIN f
       THEN f
       ELSE SafeRenameDirectory(f, folder, new_path, outcome)

\* rename_sequence_folders up to its os.listdir, entered at position `at`;
\* `after` is where the caller continues when the directory is missing
EnterRename(at, after) ==
    \/ /\ ~seqDir
       /\ pc' = after
       /\ UNCHANGED todo
    \/ /\ seqDir
       /\ todo' = UnqualifiedItems(fs, soils)
       /\ pc' = at
    \/ \* os.listdir raises: nothing in run_for_all_soils catches it
       /\ seqDir
       /\ pc' = "raised"
       /\ UNCHANGED todo

\* lines 384-391: relocate the previous variant's folders, or create the
\* sequence directory
Relocate ==
    /\ pc = "relocate"
    /\ \/ /\ seqDir /\ i > 0
          /\ EnterRename("rename_prev", "single")
          /\ UNCHANGED seqDir
       \/ /\ seqDir /\ i = 0
          /\ pc' = "single"
          /\ UNCHANGED <<seqDir, todo>>
       \/ \* os.makedirs(sequence_dir_base, exist_ok=True)
          /\ ~seqDir
          /\ seqDir' = TRUE
          /\ pc' = "single"
          /\ UNCHANGED todo
       \/ \* os.makedirs raises
          /\ ~seqDir
          /\ pc' = "raised"
          /\ UNCHANGED <<seqDir, todo>>
    /\ UNCHANGED <<orchVars, fileVars, fs, childVars>>
    /\ UNCHANGED <<unmoved, mainVars, genVars>>

\* the soil name rename_sequence_folders was called with
RenameSoil == IF pc = "rename_prev" THEN Soil(i - 1) ELSE Soil(i)

\* one iteration of  for item in os.listdir(sequence_dir)  in
\* rename_sequence_folders, in listing order (any order)
RenameItem ==
    /\ pc \in {"rename_prev", "rename_last"}
    /\ \E item \in todo, rmtree_ok \in BOOLEAN, outcome \in RenameOutcomes :
        /\ fs' = RenameOne(fs, item, RenameSoil, rmtree_ok, outcome)
        /\ todo' = todo \ {item}
        /\ \* Warning: Failed to rename (line 465)
           unmoved' =
              IF /\ outcome = "failed"
                 /\ (QualifiedName(RenameSoil, LastPart(item)) \in DOMAIN fs => rmtree_ok)
              THEN unmoved \cup {[name |-> item, content |-> fs[item]]}
              ELSE unmoved
    /\ UNCHANGED <<pc, orchVars, fileVars, seqDir, childVars>>
    /\ UNCHANGED <<mainVars, genVars>>

\* rename_sequence_folders returns to run_for_all_soils
RenameDone ==
    /\ pc \in {"rename_prev", "rename_last"}
    /\ todo = {}
    /\ pc' = IF pc = "rename_prev" THEN "single" ELSE "sleep"
    /\ UNCHANGED <<orchVars, fileVars, dirVars, childVars>>
    /\ UNCHANGED <<unmoved, mainVars, genVars>>

\* time.sleep(1) at the end of the loop body, then the next iteration
Sleep ==
    /\ pc = "sleep"
    /\ i' = i + 1
    /\ pc' = "loop"
    /\ child' = NoChild
    /\ UNCHANGED <<soils, all_successful, result, attempt, nRestore, nSweep,
                   fileVars, dirVars, pipeVars>>
    /\ UNCHANGED <<unmoved, mainVars, genVars>>

(* ------------------------- child processes ---------------------------- *)
\* kinds of output lines: one that holds "Press any key to continue" or
\* "Terminate batch job", one that holds "Total processing time", any other
Lines == {"prompt", "marker", "other"}
\* the same, and a line that holds a prompt and the completion marker
AnyLines == Lines \cup {"both"}
\* the completion marker answered like a prompt
HasPromptOrMarker(line) == line # "other"
\* "Press any key to continue" in line or "Terminate batch job" in line
HasPrompt(line) == line \in {"prompt", "both"}
\* "Total processing time" in line
HasMarker(line) == line \in {"marker", "both"}

Running == [status |-> "running", code |-> 0, open |-> FALSE]
RunningPiped == [status |-> "running", code |-> 0, open |-> TRUE]
Exited(code) == [status |-> "exited", code |-> code, open |-> FALSE]
\* Popen.kill(): SIGKILL
Killed == Exited(-9)
\* Popen.terminate(): SIGTERM
Terminated == Exited(-15)

InSequenceRun == pc \in {"seq_read", "seq_wait"}

\* the child ends by itself; the engine reports success only after it wrote
\* all its sequence folders
ChildExit ==
    /\ child.status = "running"
    /\ \E code \in {0, 1} :
        /\ (InSequenceRun /\ code = 0) => written = MaxSeq
        /\ child' = Exited(code)
    /\ UNCHANGED <<pc, orchVars, fileVars, dirVars, pipe, emitted, written, acks>>
    /\ UNCHANGED <<unmoved, mainVars, genVars>>

\* the sequence child prints a line while the parent reads its output
ChildPrint ==
    /\ pc = "seq_read"
    /\ child.status = "running"
    /\ child.open
    /\ emitted < MaxLines
    /\ \E line \in Lines : pipe' = Append(pipe, line)
    /\ emitted' = emitted + 1
    /\ UNCHANGED <<pc, orchVars, fileVars, dirVars, child, written, acks>>
    /\ UNCHANGED <<unmoved, mainVars, genVars>>

\* the same child printing any line of AnyLines
ChildPrintAny ==
    /\ pc = "seq_read"
    /\ child.status = "running"
    /\ child.open
    /\ emitted < MaxLines
    /\ \E line \in AnyLines : pipe' = Append(pipe, line)
    /\ emitted' = emitted + 1
    /\ UNCHANGED <<pc, orchVars, fileVars, dirVars, child, written, acks>>
    /\ UNCHANGED <<unmoved, mainVars, genVars>>

\* the sequence child closes its output stream and keeps running
ChildClose ==
    /\ InSequenceRun
    /\ child.status = "running"
    /\ child.open
    /\ child' = [child EXCEPT !.open = FALSE]
    /\ UNCHANGED <<pc, orchVars, fileVars, dirVars, pipe, emitted, written, acks>>
    /\ UNCHANGED <<unmoved, mainVars, genVars>>

\* the engine writes its next result folder sequence_<n> into the fixed,
\* non-qualified name, replacing what is there
ChildWrite ==
    /\ InSequenceRun
    /\ child.status = "running"
    /\ written < MaxSeq
    /\ fs' = [x \in DOMAIN fs \cup {EngineDir(written)} |->
                 IF x = EngineDir(written) THEN Content(i, written) ELSE fs[x]]
    /\ seqDir' = TRUE
    /\ written' = written + 1
    /\ UNCHANGED <<pc, orchVars, fileVars, todo, child, pipe, emitted, acks>>
    /\ UNCHANGED <<unmoved, mainVars, genVars>>

(* --------------------------- run_simulation --------------------------- *)
\* run_simulation reporting success after it killed the child
RunSimulationReturnsZeroOnTimeout(timed_out, returncode) ==
    IF timed_out THEN 0 ELSE returncode

\* return value of run_simulation: 1 after TimeoutExpired, else the return
\* code of the (single) step
RunSimulationReturn(timed_out, returncode) == IF timed_out THEN 1 ELSE returncode

\* str(all_successful)
Bool(b) == IF b THEN "True" ELSE "False"

\* only a negative code (a signal) taken as a failure
SimFailedWhenNegative(sim_result) == sim_result < 0

\* if sim_result != 0
SimFailed(sim_result) == sim_result # 0

\* the caller's reaction to sim_result (lines 350-356, 399-404 and 550-554)
AfterSingle(sim_result, timed_out) ==
    IF soils = <<>>
    THEN /\ UNCHANGED <<i, all_successful, attempt>>
         /\ IF SimFailed(sim_result)
            THEN IF multi_sol
                 THEN pc' = "returned" /\ result' = "False"
                 ELSE \* main, line 552: return
                      pc' = "exited" /\ UNCHANGED result
            ELSE pc' = "sequence" /\ UNCHANGED result
    ELSE /\ UNCHANGED result
         /\ LET rec == [attempt[i + 1] EXCEPT
                          !.sim = <<sim_result>>,
                          !.timeout = IF timed_out THEN "sim" ELSE @]
            IN IF SimFailed(sim_result)
               THEN SkipVariant(rec)
               ELSE /\ attempt' = [attempt EXCEPT ![i + 1] = rec]
                    /\ pc' = "sequence"
                    /\ UNCHANGED <<i, all_successful>>

\* run_simulation up to Popen
SimPopen ==
    /\ pc = "single"
    /\ \/ /\ child' = Running
          /\ pc' = "single_wait"
       \/ \* open('run.log') or Popen raises OSError: not caught
          /\ pc' = "raised"
          /\ UNCHANGED child
    /\ UNCHANGED <<orchVars, fileVars, dirVars, pipe, emitted, written, acks>>
    /\ UNCHANGED <<unmoved, mainVars, genVars>>

\* process.wait(timeout=600) returns
SingleDone ==
    /\ pc = "single_wait"
    /\ child.status = "exited"
    /\ AfterSingle(RunSimulationReturn(FALSE, child.code), FALSE)
    /\ child' = NoChild
    /\ UNCHANGED <<soils, nRestore, nSweep, fileVars, dirVars, pipeVars>>
    /\ UNCHANGED <<unmoved, mainVars, genVars>>

\* process.wait(timeout=600) raises TimeoutExpired: process.kill(); return 1
SingleTimeout ==
    /\ pc = "single_wait"
    /\ child.status = "running"
    /\ child' = Killed
    /\ AfterSingle(RunSimulationReturn(TRUE, child.code), TRUE)
    /\ UNCHANGED <<soils, nRestore, nSweep, fileVars, dirVars, pipe, emitted,
                   written, acks>>
    /\ UNCHANGED <<unmoved, mainVars, genVars>>

(* ---------------------------- run_sequence ---------------------------- *)
\* run_sequence handing back the child's code after TimeoutExpired
RunSequenceReturnsCodeOnTimeout(how, return_code) ==
    IF how = "exception" THEN 1 ELSE return_code

\* return value of run_sequence: the code process.wait returned, or 1 from
\* the except clauses
RunSequenceReturn(how, return_code) == IF how = "wait" THEN return_code ELSE 1

\* the success test accepting every non-negative code
SeqOkNonNegative(res) == res >= 0

\* if result == 0
SeqOk(res) == res = 0

\* the caller's reaction to result (lines 359-366 and 408-422)
AfterSequence(res, timed_out) ==
    IF soils = <<>>
    THEN /\ pc' = "returned"
         /\ result' = Bool(SeqOk(res))
         /\ UNCHANGED <<i, all_successful, attempt, todo>>
    ELSE /\ UNCHANGED <<i, result>>
         /\ attempt' = [attempt EXCEPT ![i + 1].seq = <<res>>,
                                       ![i + 1].timeout = IF timed_out THEN "seq" ELSE @]
         /\ IF SeqOk(res)
            THEN /\ UNCHANGED all_successful
                 /\ IF i = Len(soils) - 1
                    THEN EnterRename("rename_last", "sleep")
                    ELSE pc' = "sleep" /\ UNCHANGED todo
            ELSE /\ all_successful' = FALSE
                 /\ pc' = "sleep"
                 /\ UNCHANGED todo

\* run_sequence up to Popen
SeqStart ==
    /\ pc = "sequence"
    /\ \/ /\ child' = RunningPiped
          /\ pipe' = <<>>
          /\ emitted' = 0
          /\ written' = 0
          /\ acks' = 0
          /\ pc' = "seq_read"
          /\ UNCHANGED <<i, all_successful, attempt, result, todo>>
       \/ \* the path does not split at 'simulations', or Popen raises: return 1
          /\ AfterSequence(RunSequenceReturn("exception", 0), FALSE)
          /\ UNCHANGED childVars
       \/ \* open(log_file, 'w') raises, outside the try
          /\ pc' = "raised"
          /\ UNCHANGED <<i, all_successful, attempt, result, todo, childVars>>
    /\ UNCHANGED <<soils, nRestore, nSweep, fileVars, seqDir, fs>>
    /\ UNCHANGED <<unmoved, mainVars, genVars>>

\* one iteration of  for line in process.stdout
SeqReadLine ==
    /\ pc = "seq_read"
    /\ pipe # <<>>
    /\ LET line == Head(pipe)
       IN \/ /\ ~HasPrompt(line) /\ ~HasMarker(line)
             /\ pipe' = Tail(pipe)
             /\ UNCHANGED <<pc, i, all_successful, attempt, result, todo, child, acks,
                            emitted, written>>
          \/ \* process.stdin.write('\n'); process.stdin.flush()
             /\ HasPrompt(line) /\ ~HasMarker(line)
             /\ child.status = "running"
             /\ pipe' = Tail(pipe)
             /\ acks' = acks + 1
             /\ UNCHANGED <<pc, i, all_successful, attempt, result, todo, child,
                            emitted, written>>
          \/ \* the write raises BrokenPipeError: except Exception, return 1
             /\ HasPrompt(line)
             /\ child.status = "exited"
             /\ AfterSequence(RunSequenceReturn("exception", child.code), FALSE)
             /\ child' = NoChild
             /\ Dropped
          \/ \* process.terminate(); break.  The child dies of SIGTERM, or it
             \* handles the signal and keeps running, or it had exited already
             /\ HasMarker(line)
             /\ HasPrompt(line) => child.status = "running"
             /\ \/ child.status = "running" /\ child' = Terminated
                \/ UNCHANGED child
             /\ pipe' = Tail(pipe)
             /\ acks' = IF HasPrompt(line) THEN acks + 1 ELSE acks
             /\ pc' = "seq_wait"
             /\ UNCHANGED <<i, all_successful, attempt, result, todo, emitted, written>>
    /\ UNCHANGED <<soils, nRestore, nSweep, fileVars, seqDir, fs>>
    /\ UNCHANGED <<unmoved, mainVars, genVars>>

\* the output stream is at end of file: the for loop ends
SeqEOF ==
    /\ pc = "seq_read"
    /\ pipe = <<>>
    /\ ~child.open
    /\ pc' = "seq_wait"
    /\ UNCHANGED <<orchVars, fileVars, dirVars, childVars>>
    /\ UNCHANGED <<unmoved, mainVars, genVars>>

\* process.wait(timeout=1800) returns
SeqWaitDone ==
    /\ pc = "seq_wait"
    /\ child.status = "exited"
    /\ AfterSequence(RunSequenceReturn("wait", child.code), FALSE)
    /\ child' = NoChild
    /\ Dropped
    /\ UNCHANGED <<soils, nRestore, nSweep, fileVars, seqDir, fs>>
    /\ UNCHANGED <<unmoved, mainVars, genVars>>

\* process.wait(timeout=1800) raises TimeoutExpired: process.kill(); return 1
SeqTimeout ==
    /\ pc = "seq_wait"
    /\ child.status = "running"
    /\ child' = Killed
    /\ AfterSequence(RunSequenceReturn("timeout", child.code), TRUE)
    /\ Dropped
    /\ UNCHANGED <<soils, nRestore, nSweep, fileVars, seqDir, fs>>
    /\ UNCHANGED <<unmoved, mainVars, genVars>>

(* --------------------- after the loop (lines 424-436) ------------------ *)
\* restore_original_maket_xml: the content of maket.xml afterwards
RestoredMaket(m, b) == IF b # NoFile THEN b ELSE m

Restore ==
    /\ pc = "restore"
    /\ nRestore' = nRestore + 1
    /\ \/ /\ maket' = RestoredMaket(maket, backup)
          /\ pc' = "sweep"
       \/ \* shutil.copy2 raises
          /\ backup # NoFile
          /\ pc' = "raised"
          /\ UNCHANGED maket
    /\ UNCHANGED <<soils, i, all_successful, result, attempt, nSweep, backup,
                   dirVars, childVars>>
    /\ UNCHANGED <<unmoved, mainVars, genVars>>

\* check_and_fix_sequence_folders up to its listing
Sweep ==
    /\ pc = "sweep"
    /\ nSweep' = nSweep + 1
    /\ \/ /\ ~seqDir
          /\ pc' = "returned"
          /\ result' = Bool(all_successful)
          /\ UNCHANGED todo
       \/ /\ seqDir
          /\ todo' = UnqualifiedItems(fs, soils)
          /\ pc' = "fix"
          /\ UNCHANGED result
       \/ \* os.listdir raises
          /\ seqDir
          /\ pc' = "raised"
          /\ UNCHANGED <<result, todo>>
    /\ UNCHANGED <<soils, i, all_successful, attempt, nRestore, fileVars, seqDir,
                   fs, childVars>>
    /\ UNCHANGED <<unmoved, mainVars, genVars>>

\* one iteration of  for folder in unnamed_folders
FixItem ==
    /\ pc = "fix"
    /\ \E folder \in todo, outcome \in RenameOutcomes :
        /\ fs' = FixOne(fs, folder, Soil(Len(soils) - 1), outcome)
        /\ todo' = todo \ {folder}
    /\ UNCHANGED <<pc, orchVars, fileVars, seqDir, childVars>>
    /\ UNCHANGED <<unmoved, mainVars, genVars>>

\* return all_successful
FixDone ==
    /\ pc = "fix"
    /\ todo = {}
    /\ pc' = "returned"
    /\ result' = Bool(all_successful)
    /\ UNCHANGED <<soils, i, all_successful, attempt, nRestore, nSweep, fileVars,
                   dirVars, childVars>>
    /\ UNCHANGED <<unmoved, mainVars, genVars>>

(* --------------------------- specification ---------------------------- *)
\* the steps of the orchestrator's own thread
RunNext ==
    \/ Patch \/ LoopExit \/ Relocate \/ RenameItem \/ RenameDone \/ Sleep
    \/ SimPopen \/ SingleDone \/ SingleTimeout
    \/ SeqStart \/ SeqReadLine \/ SeqEOF \/ SeqWaitDone \/ SeqTimeout
    \/ Restore \/ Sweep \/ FixItem \/ FixDone

\* the steps of the external engine
ChildNext == ChildExit \/ ChildPrint \/ ChildClose \/ ChildWrite

\* what happens between and around the runs
PrepNext == Start \/ UpdateMaketXml

Next == PrepNext \/ RunNext \/ ChildNext

Spec == Init /\ [][Next]_vars

\* a started run_for_all_soils keeps executing: its thread takes its next
\* step whenever it has one; nothing obliges the engine to act
LiveSpec == Spec /\ WF_vars(RunNext)

(* -------------------------------- main -------------------------------- *)
\* main with multi_sol off runs the simulation and the sequence itself
\* (lines 545-548)
MainDirect ==
    /\ pc = "idle"
    /\ ~multi_sol
    /\ soils' = <<>>
    /\ attempt' = <<>>
    /\ pc' = "single"
    /\ UNCHANGED <<i, all_successful, result, nRestore, nSweep, fileVars, dirVars,
                   childVars>>
    /\ UNCHANGED <<unmoved, mainVars, genVars>>

\* main after success was assigned (lines 565-578): the export
SaveResults ==
    /\ pc = "returned"
    /\ pc' = "exited"
    /\ exported' = save_result_to_tif_json
    /\ UNCHANGED <<orchVars, fileVars, dirVars, childVars>>
    /\ UNCHANGED <<unmoved, save_result_to_tif_json, genVars>>

\* main is started on a configuration
MainInit ==
    /\ position_file = MissingFile
    /\ multi_sol \in BOOLEAN
    /\ soil_root = MissingDir
    /\ phase_xml = MissingPhase
    /\ nbr_of_sequence = 0
    /\ params_to_vary = NoParams
    /\ seed = 0
    /\ PrepIdle
    /\ pc = "idle"
    /\ soils = <<>>
    /\ i = 0
    /\ all_successful = TRUE
    /\ result = "none"
    /\ attempt = <<>>
    /\ maket = OrigIdent
    /\ backup = NoFile
    /\ seqDir \in BOOLEAN
    /\ fs = <<>>
    /\ todo = {}
    /\ child = NoChild
    /\ pipe = <<>>
    /\ emitted = 0
    /\ written = 0
    /\ acks = 0
    /\ nRestore = 0
    /\ nSweep = 0
    /\ unmoved = {}
    /\ save_result_to_tif_json \in BOOLEAN
    /\ exported = FALSE

\* main of run_dart_sequence.py: the run, then the export
MainSpec == MainInit /\ [][MainDirect \/ SaveResults \/ Next]_vars

\* run_sequence is called on the single path (line 359), nothing else runs
ReadInit ==
    /\ position_file = MissingFile
    /\ multi_sol = TRUE
    /\ soil_root = MissingDir
    /\ phase_xml = MissingPhase
    /\ nbr_of_sequence = 0
    /\ params_to_vary = NoParams
    /\ seed = 0
    /\ PrepIdle
    /\ pc = "sequence"
    /\ soils = <<>>
    /\ i = 0
    /\ all_successful = TRUE
    /\ result = "none"
    /\ attempt = <<>>
    /\ maket = OrigIdent
    /\ backup = NoFile
    /\ seqDir \in BOOLEAN
    /\ fs = <<>>
    /\ todo = {}
    /\ child = NoChild
    /\ pipe = <<>>
    /\ emitted = 0
    /\ written = 0
    /\ acks = 0
    /\ nRestore = 0
    /\ nSweep = 0
    /\ unmoved = {}
    /\ save_result_to_tif_json = FALSE
    /\ exported = FALSE

\* one call of run_sequence with its child, on every kind of output line
ReadSpec ==
    ReadInit /\ [][\/ SeqStart \/ SeqReadLine \/ SeqEOF \/ SeqWaitDone \/ SeqTimeout
                   \/ ChildExit \/ ChildPrintAny \/ ChildClose \/ ChildWrite]_vars

(* ------------------- the final sweep on any soil names ---------------- *)
\* names a soil folder may have: two letters that do not occur in
\* "sequence_", a letter that does, a digit, and a word inside "sequence"
VariantNames == {<<"a">>, <<"b">>, <<"e">>, <<"0">>, <<"s", "e", "q">>}

\* check_and_fix_sequence_folders is called (line 428) with a list of distinct
\* soil names; the sequence directory holds the folders the last sequence run
\* wrote and, or not, a folder of the first soil that was renamed before
SweepInit ==
    /\ position_file = MissingFile
    /\ multi_sol = TRUE
    /\ soil_root = MissingDir
    /\ phase_xml = MissingPhase
    /\ nbr_of_sequence = 0
    /\ params_to_vary = NoParams
    /\ seed = 0
    /\ PrepIdle
    /\ pc = "sweep"
    /\ soils \in {l \in UNION {[1..n -> VariantNames] : n \in 1..MaxSoils} :
                     \A j, k \in DOMAIN l : j # k => l[j] # l[k]}
    /\ i = Len(soils)
    /\ all_successful = TRUE
    /\ result = "none"
    /\ attempt = [k \in DOMAIN soils |-> NoAttempt]
    /\ maket = OrigIdent
    /\ backup = NoFile
    /\ seqDir = TRUE
    /\ \E renamed \in BOOLEAN :
          fs = [d \in {EngineDir(n) : n \in 0..(MaxSeq - 1)}
                      \cup (IF renamed THEN {QualifiedName(soils[1], NumStr(0))} ELSE {})
                  |-> IF d = QualifiedName(soils[1], NumStr(0))
                      THEN Content(0, 0)
                      ELSE Content(Len(soils) - 1,
                                   CHOOSE n \in 0..(MaxSeq - 1) : d = EngineDir(n))]
    /\ todo = {}
    /\ child = NoChild
    /\ pipe = <<>>
    /\ emitted = 0
    /\ written = 0
    /\ acks = 0
    /\ nRestore = 1
    /\ nSweep = 0
    /\ unmoved = {}
    /\ save_result_to_tif_json = FALSE
    /\ exported = FALSE

\* the final sweep alone, on every list of soil names
SweepSpec == SweepInit /\ [][Sweep \/ FixItem \/ FixDone]_vars

(* --------------------------- the position file ------------------------ *)
\* largest number of lines of a position file
MaxPosLines == 2

\* all sequences over S of length at most n
SeqsUpTo(S, n) == UNION {[1..k -> S] : k \in 0..n}

\* fields of a line, as line.strip().split() gives them
Zero == <<"0">>
One == <<"1">>
Two == <<"2">>

\* "0 1 1 0 2 2 2": a tree at (1, 1, 0) with scale 2
RecordLine == <<Zero, One, One, Zero, Two, Two, Two>>
\* "0 1 1": no scale fields
ShortLine == <<Zero, One, One>>
\* "0.5 1 1 0 2 2 2"
DecimalLine == << <<"0", ".", "5">>, One, One, Zero, Two, Two, Two>>
\* "01 1 1 0 2 2 2"
PaddedLine == << <<"0", "1">>, One, One, Zero, Two, Two, Two>>
\* "1 1 1 0 2 2 2": another object type
OtherLine == <<One, One, One, Zero, Two, Two, Two>>
\* "0 1 1 0 x 2 2": an xscale that is no number
BadScaleLine == <<Zero, One, One, Zero, <<"x">>, Two, Two>>
\* an empty line
BlankLine == <<>>

LineKinds == {RecordLine, ShortLine, DecimalLine, PaddedLine, OtherLine,
              BadScaleLine, BlankLine}

\* the position files: absent, or up to MaxPosLines lines
PositionFiles ==
    {MissingFile} \cup
    {[exists |-> TRUE, lines |-> l] : l \in SeqsUpTo(LineKinds, MaxPosLines)}

\* line.strip().startswith('0')
StartsWithZero(line) == line # <<>> /\ Head(line)[1] = "0"

\* count_trees_in_position_file: open() raises on a missing file, the except
\* clause returns 0
CountTrees(file) ==
    IF ~file.exists
    THEN 0
    ELSE Cardinality({k \in 1..Len(file.lines) : StartsWithZero(file.lines[k])})

DecDigits == <<"0", "1", "2", "3", "4", "5", "6", "7", "8", "9">>
DigitValue(c) == (CHOOSE d \in 1..Len(DecDigits) : DecDigits[d] = c) - 1
IsDigit(c) == \E d \in 1..Len(DecDigits) : DecDigits[d] = c

\* whether float(field) returns: digits with at most one decimal point
IsNumber(field) ==
    /\ \A k \in 1..Len(field) : IsDigit(field[k]) \/ field[k] = "."
    /\ Cardinality({k \in 1..Len(field) : field[k] = "."}) <= 1
    /\ \E k \in 1..Len(field) : IsDigit(field[k])

\* the integer the digits of s write
RECURSIVE Decimal(_)
Decimal(s) ==
    IF s = <<>> THEN 0
    ELSE 10 * Decimal(SubSeq(s, 1, Len(s) - 1)) + DigitValue(s[Len(s)])

\* float(field), in tenths: the integer part and the first decimal
Float(field) ==
    LET dots == {k \in 1..Len(field) : field[k] = "."}
        dot == IF dots = {} THEN Len(field) + 1 ELSE CHOOSE k \in dots : TRUE
        frac == SubSeq(field, dot + 1, Len(field))
    IN 10 * Decimal(SubSeq(field, 1, dot - 1))
       + (IF frac = <<>> THEN 0 ELSE DigitValue(frac[1]))

\* the loop of read_scale_from_positions over the remaining lines; a
\* ValueError of float() ends the loop in the except clause
RECURSIVE ScaleLoop(_, _)
ScaleLoop(lines, acc) ==
    IF lines = <<>> THEN acc
    ELSE LET values == Head(lines)
         IN IF StartsWithZero(values) /\ Len(values) >= 7
            THEN IF IsNumber(values[5])
                 THEN ScaleLoop(Tail(lines), Append(acc, Float(values[5])))
                 ELSE acc
            ELSE ScaleLoop(Tail(lines), acc)

\* read_scale_from_positions: the xscale values, in tenths
ReadScales(file) == IF ~file.exists THEN <<>> ELSE ScaleLoop(file.lines, <<>>)

\* one call of count_trees_in_position_file(position_file)
CountTreesInPositionFile ==
    /\ gen_pc = "idle"
    /\ tree_count = <<>>
    /\ tree_count' = <<CountTrees(position_file)>>
    /\ UNCHANGED <<runVars, position_file, scales, soilInputs, discovered, prepVars>>

\* one call of read_scale_from_positions(position_file)
ReadScaleFromPositions ==
    /\ gen_pc = "idle"
    /\ scales = <<>>
    /\ scales' = <<ReadScales(position_file)>>
    /\ UNCHANGED <<runVars, position_file, tree_count, soilInputs, discovered, prepVars>>

\* the rest of the configuration is not looked at
ConfigIdle ==
    /\ nbr_of_sequence = 0
    /\ params_to_vary = NoParams
    /\ seed = 0

PosInit ==
    /\ RunIdle
    /\ PrepIdle
    /\ ConfigIdle
    /\ multi_sol = FALSE
    /\ soil_root = MissingDir
    /\ phase_xml = MissingPhase
    /\ position_file \in PositionFiles

PosNext == CountTreesInPositionFile \/ ReadScaleFromPositions

\* the readers of the position file, on every position file
PosSpec == PosInit /\ [][PosNext]_vars

(* --------------------------- soil discovery --------------------------- *)
\* largest number of spectral bands phase.xml declares
MaxBands == 2

\* what an entry of the soil root may be: a folder holding 0..MaxBands files
\* whose name ends with .txt, or a plain file
EntryKinds ==
    {[isdir |-> TRUE, txt |-> n] : n \in 0..MaxBands} \cup {[isdir |-> FALSE, txt |-> 0]}

\* the listing os.listdir(soil_factor_path) gives for entries of kinds f
Listing(f) ==
    [k \in DOMAIN f |-> [name |-> AllSoils[k], isdir |-> f[k].isdir, txt |-> f[k].txt]]

\* the soil roots: absent (or no directory), or up to MaxSoils entries
SoilRoots ==
    {MissingDir} \cup
    {[exists |-> TRUE, entries |-> Listing(f)] : f \in SeqsUpTo(EntryKinds, MaxSoils)}

\* input/phase.xml: absent, or declaring 0..MaxBands bands with a bandNumber
\* and a spectralDartMode
PhaseFiles == {MissingPhase} \cup {[exists |-> TRUE, bands |-> n] : n \in 0..MaxBands}

\* get_spectral_intervals: len(band_info), 0 standing for None (returned when
\* phase.xml is missing or unreadable, and when band_info is empty)
GetSpectralIntervals(phase) == IF phase.exists THEN phase.bands ELSE 0

\* a folder passing with any number of files from the band count upwards
MismatchWhenFewer(num_files, num_bands) == num_files < num_bands

\* if num_files != num_bands
Mismatch(num_files, num_bands) == num_files # num_bands

\* [f for f in os.listdir(soil_factor_path) if os.path.isdir(...)]
SoilFolders(root) == SelectSeq(root.entries, LAMBDA e : e.isdir)

\* the names of a sequence of entries
Names(entries) == [k \in DOMAIN entries |-> entries[k].name]

\* check_soil_band_files: valid_soils, and the folders a WARNING names
CheckSoilBandFiles(root, num_bands) ==
    LET soil_folders == SoilFolders(root)
        valid == SelectSeq(soil_folders, LAMBDA e : ~Mismatch(e.txt, num_bands))
    IN [list |-> Names(valid),
        warned |-> {soil_folders[k].name : k \in
                       {x \in DOMAIN soil_folders :
                           Mismatch(soil_folders[x].txt, num_bands)}}]

\* return None
ReturnedNone(warned) == [called |-> TRUE, none |-> TRUE, list |-> <<>>, warned |-> warned]

\* get_available_soils (run_dart_sequence.py and generate_sequence_from_config.py)
GetAvailableSoils(multi, root, phase) ==
    IF ~multi THEN ReturnedNone({})
    ELSE IF ~root.exists THEN ReturnedNone({})
    ELSE IF GetSpectralIntervals(phase) = 0 THEN ReturnedNone({})
    ELSE LET checked == CheckSoilBandFiles(root, GetSpectralIntervals(phase))
         IN IF checked.list = <<>>
            THEN ReturnedNone(checked.warned)
            ELSE [called |-> TRUE, none |-> FALSE, list |-> checked.list,
                  warned |-> checked.warned]

\* one call of get_available_soils(config_path)
Discover ==
    /\ gen_pc = "idle"
    /\ ~discovered.called
    /\ discovered' = GetAvailableSoils(multi_sol, soil_root, phase_xml)
    /\ UNCHANGED <<runVars, posVars, soilInputs, prepVars>>

SoilInit ==
    /\ RunIdle
    /\ PrepIdle
    /\ ConfigIdle
    /\ position_file = MissingFile
    /\ multi_sol \in BOOLEAN
    /\ soil_root \in SoilRoots
    /\ phase_xml \in PhaseFiles

\* soil variant discovery, on every soil root and manifest
SoilSpec == SoilInit /\ [][Discover]_vars

(* ----------------------- the preparation scripts ---------------------- *)
\* largest nbr_of_sequence of a configuration
MaxTrials == 2
\* the random generator draws one of the fractions 0/Grain .. Grain/Grain
Grain == 2

\* the initial states of the random generator
Seeds == {0, 1}

\* the k-th draw (k = 0, 1, ...) of a generator started in state s, as the
\* numerator of its fraction
Rand(s, k) == (s + k) % (Grain + 1)

\* rd.random() * 70 + 20, in tenths; random() stays below 1
CabValue(r) == 200 + (700 * r) \div (Grain + 1)
\* rd.random() * 0.04 + 0.01, in ten-thousandths
CwValue(r) == 100 + (400 * r) \div (Grain + 1)
\* rd.uniform(290, 310), in tenths of a kelvin; uniform may give both ends
SoilTemp(r) == 2900 + (200 * r) \div Grain

\* a leaf drawn warmer than the soil
LeafTempAbove(soil, r) == soil + (10 + (90 * r) \div Grain)

\* soil - rd.uniform(1, 10)
LeafTemp(soil, r) == soil - (10 + (90 * r) \div Grain)
\* soil - rd.uniform(0.5, 5)
TrunkTemp(soil, r) == soil - (5 + (45 * r) \div Grain)

\* str(n) of a natural number
RECURSIVE Str(_)
Str(n) ==
    IF n < 10 THEN <<DecDigits[n + 1]>>
    ELSE Str(n \div 10) \o <<DecDigits[(n % 10) + 1]>>

\* a loop running once more than the trial count
TrialsAndOne(nbr_simulation) == 1..(nbr_simulation + 1)

\* for _ in range(nbr_simulation), counted from 1
Trials(nbr_simulation) == 1..nbr_simulation

\* generate_random_values(nbr_simulation, num_trees) with the generator in
\* state s: cab_values and cw_values per tree, temp_values per trial (soil,
\* the leaves, the trunks), every value as str() gives it
GenerateRandomValues(nbr_simulation, num_trees, s) ==
    LET n == nbr_simulation
        T == num_trees
    IN [cab |-> [tree \in 1..T |-> [t \in Trials(n) |->
                    Str(CabValue(Rand(s, (tree - 1) * n + t - 1)))]],
        cw |-> [tree \in 1..T |-> [t \in Trials(n) |->
                    Str(CwValue(Rand(s, T * n + (tree - 1) * n + t - 1)))]],
        temp |-> [t \in Trials(n) |->
                    LET base == 2 * T * n + (t - 1) * (1 + 2 * T)
                        soil == SoilTemp(Rand(s, base))
                    IN [c \in 1..(1 + 2 * T) |->
                          Str(IF c = 1 THEN soil
                              ELSE IF c <= 1 + T
                                   THEN LeafTemp(soil, Rand(s, base + c - 1))
                                   ELSE TrunkTemp(soil, Rand(s, base + c - 1)))]]]

\* [str(scales[i] * (0.8 + 0.4 * rd.random())) for _ in range(nbr_simulation)],
\* in thousandths, the generator having drawn `drawn` times before
ScaleDeviation(scale, nbr_simulation, s, drawn) ==
    [t \in Trials(nbr_simulation) |->
        Str(scale * (80 + (40 * Rand(s, drawn + t - 1)) \div (Grain + 1)))]

Semicolon == <<";">>
\* ";".join(values)
Join(values) ==
    IF values = <<>> THEN <<>>
    ELSE [k \in 1..(2 * Len(values) - 1) |->
             IF k % 2 = 1 THEN values[(k + 1) \div 2] ELSE Semicolon]
\* the values an args attribute holds
Split(args) == SelectSeq(args, LAMBDA x : x # Semicolon)

\* a DartSequencerDescriptorEntry whose propertyName embeds an index
Entry(path, index, values) ==
    [propertyName |-> [path |-> path, index |-> index], args |-> Join(values)]
\* a DartSequencerDescriptorEntry of Maket.Soil.OpticalPropertyLink
SoilEntry(path, values) == [propertyName |-> [path |-> path], args |-> Join(values)]

\* the entity index used as it is
LambertianIndexWithoutOffset(tree, offset) == tree
\* lambertian_index = i + offset
LambertianIndex(tree, offset) == tree + offset

\* the leaves in one block after the soil
LeafIndexPacked(tree) == 1 + tree
\* ThermalFunction[{1 + 2 * i}]
LeafIndex(tree) == 1 + 2 * tree
\* ThermalFunction[{2 + 2 * i}]
TrunkIndex(tree) == 2 + 2 * tree

\* the phase indices counted from 1
PhaseIndicesFromOne(n) == [k \in 1..n |-> Str(k)]
\* [str(i) for i in range(len(soils))]
PhaseIndices(n) == [k \in 1..n |-> Str(k - 1)]

\* offset = len(soils) if multi_sol and get_available_soils found any, else 0
Offset(multi, found) ==
    IF multi /\ ~found.none /\ Len(found.list) > 0 THEN Len(found.list) ELSE 0

Axes == <<"xscale", "yscale", "zscale">>

\* lines 165-176: three entries per tree, sharing the tree's deviations
ScaleEntries(sc, n, T, s) ==
    [k \in 1..(3 * T) |->
        LET tree == (k - 1) \div 3
        IN Entry(Axes[((k - 1) % 3) + 1], tree,
                 ScaleDeviation(sc[tree + 1], n, s,
                                2 * T * n + n * (1 + 2 * T) + tree * n))]

\* the soil entry emitted whenever the block of line 179 is entered
TemperatureEntriesJointlyGated(params, temp, T) ==
    (IF params.soil_temperature \/ params.tree_temperature
     THEN <<Entry("meanT", 0, [t \in DOMAIN temp |-> temp[t][1]])>>
     ELSE <<>>)
    \o (IF params.tree_temperature
        THEN [k \in 1..T |->
                 Entry("meanT", LeafIndex(k - 1), [t \in DOMAIN temp |-> temp[t][k + 1]])]
             \o [k \in 1..T |->
                 Entry("meanT", TrunkIndex(k - 1),
                       [t \in DOMAIN temp |-> temp[t][k + T + 1]])]
        ELSE <<>>)

\* lines 178-204: the soil entry, the leaf entries, the trunk entries
TemperatureEntries(params, temp, T) ==
    (IF params.soil_temperature
     THEN <<Entry("meanT", 0, [t \in DOMAIN temp |-> temp[t][1]])>>
     ELSE <<>>)
    \o (IF params.tree_temperature
        THEN [k \in 1..T |->
                 Entry("meanT", LeafIndex(k - 1), [t \in DOMAIN temp |-> temp[t][k + 1]])]
             \o [k \in 1..T |->
                 Entry("meanT", TrunkIndex(k - 1),
                       [t \in DOMAIN temp |-> temp[t][k + T + 1]])]
        ELSE <<>>)

\* lines 206-228: one entry per tree for Cab, then for Cw
ProspectEntries(path, per_tree, T, offset) ==
    [k \in 1..T |-> Entry(path, LambertianIndex(k - 1, offset), per_tree[k])]

\* the primary group of the descriptor
PrimaryGroup(params, n, T, sc, offset, values, s) ==
    [groupName |-> "group1",
     entries |->
        (IF params.scale /\ sc # <<>> THEN ScaleEntries(sc, n, T, s) ELSE <<>>)
        \o TemperatureEntries(params, values.temp, T)
        \o (IF params.chlorophyl
            THEN ProspectEntries("Cab", values.cab, T, offset) ELSE <<>>)
        \o (IF params.water_thickness
            THEN ProspectEntries("Cw", values.cw, T, offset) ELSE <<>>)]

\* lines 230-258: the group of the soil entries
SoilGroup(found) ==
    [groupName |-> "group_soil",
     entries |->
        <<SoilEntry("ident", [k \in DOMAIN found.list |-> SoilIdent(found.list[k])]),
          SoilEntry("indexFctPhase", PhaseIndices(Len(found.list)))>>]

\* the position files, soil roots and manifests the preparation is run on
PrepPositionFiles ==
    {MissingFile} \cup
    {[exists |-> TRUE, lines |-> l] : l \in SeqsUpTo({RecordLine, ShortLine}, MaxPosLines)}
PrepSoilRoots ==
    {MissingDir} \cup
    {[exists |-> TRUE, entries |-> Listing(f)] :
        f \in SeqsUpTo({[isdir |-> TRUE, txt |-> n] : n \in {MaxBands - 1, MaxBands}},
                       MaxSoils)}
PrepPhaseFiles == {MissingPhase, [exists |-> TRUE, bands |-> MaxBands]}

\* idents of coeff_diff.xml
DefaultSoil == <<"s", "o", "i", "l">>
DefaultLeaf == <<"l", "e", "a", "f">>
LeafIdent(tree) == <<"l", "e", "a", "f", "_">> \o Str(tree)
Trunk == <<"t", "r", "u", "n", "k">>
TempSoil == <<"T", "e", "m", "p", "_", "s", "o", "i", "l">>
TempLeaf(tree) == <<"T", "e", "m", "p", "_", "l", "e", "a", "f", "_">> \o Str(tree)
TempTrunk(tree) == <<"T", "e", "m", "p", "_", "t", "r", "u", "n", "k", "_">> \o Str(tree)
TempRange == <<"T", "e", "m", "p", "e", "r", "a", "t", "u", "r", "e", "_",
               "2", "9", "0", "_", "3", "1", "0">>

\* update_coeff_diff.py lines 172-213: one soil entry per folder of the soil
\* root (no band file check), or the default soil
SoilEntries(multi, root) ==
    IF multi /\ root.exists
    THEN [k \in DOMAIN SoilFolders(root) |-> SoilIdent(SoilFolders(root)[k].name)]
    ELSE <<DefaultSoil>>

\* update_coeff_diff.py lines 215-239: the LambertianMulti list
LambertianMultiFunctions(multi, root, params, T) ==
    SoilEntries(multi, root)
    \o (IF params.chlorophyl \/ params.water_thickness
        THEN [k \in 1..T |-> LeafIdent(k - 1)]
        ELSE <<DefaultLeaf>>)
    \o <<Trunk>>

\* update_coeff_diff.py lines 257-271: the ThermalFunction list
Temperatures(params, T) ==
    <<TempSoil>>
    \o (IF params.tree_temperature
        THEN [k \in 1..(2 * T) |->
                 IF k % 2 = 1 THEN TempLeaf((k - 1) \div 2) ELSE TempTrunk((k - 2) \div 2)]
        ELSE <<TempRange>>)

\* update_coeff_diff_xml(config_path), the first script of the preparation
UpdateCoeffDiffXml ==
    /\ gen_pc = "coeff"
    /\ gen_pc' = "sequence"
    /\ LET num_trees == CountTrees(position_file)
       IN \/ \* No trees found in position file: return
             /\ num_trees = 0
             /\ UNCHANGED coeff_diff
          \/ \* spectral_info is None: sorted(spectral_info.items()) raises
             /\ num_trees > 0
             /\ multi_sol /\ soil_root.exists
             /\ GetSpectralIntervals(phase_xml) = 0
             /\ UNCHANGED coeff_diff
          \/ /\ num_trees > 0
             /\ ~(multi_sol /\ soil_root.exists /\ GetSpectralIntervals(phase_xml) = 0)
             /\ coeff_diff' =
                   <<[lambertian |-> LambertianMultiFunctions(multi_sol, soil_root,
                                                              params_to_vary, num_trees),
                      temperatures |-> Temperatures(params_to_vary, num_trees)]>>
    /\ UNCHANGED <<runVars, posVars, soilInputs, discovered, nbr_of_sequence,
                   params_to_vary, seed, sequence_xml, temp_values, gen_result>>

\* create_sequence_xml(config_path), the last script of the preparation
CreateSequenceXml ==
    /\ gen_pc = "sequence"
    /\ gen_pc' = "done"
    /\ LET num_trees == CountTrees(position_file)
           sc == IF params_to_vary.scale THEN ReadScales(position_file) ELSE <<>>
           found == GetAvailableSoils(multi_sol, soil_root, phase_xml)
           values == GenerateRandomValues(nbr_of_sequence, num_trees, seed)
           short == params_to_vary.scale /\ sc # <<>> /\ Len(sc) < num_trees
       IN /\ tree_count' = <<num_trees>>
          /\ \/ \* No trees found in position file: return
                /\ num_trees = 0
                /\ gen_result' = "aborted"
                /\ UNCHANGED <<scales, discovered, temp_values, sequence_xml>>
             \/ \* scales[i] raises IndexError: a counted line had no scale
                /\ num_trees > 0
                /\ short
                /\ gen_result' = "raised"
                /\ scales' = <<sc>>
                /\ discovered' = IF multi_sol THEN found ELSE discovered
                /\ temp_values' = values.temp
                /\ UNCHANGED sequence_xml
             \/ /\ num_trees > 0
                /\ ~short
                /\ gen_result' = "written"
                /\ scales' = <<sc>>
                /\ discovered' = IF multi_sol THEN found ELSE discovered
                /\ temp_values' = values.temp
                /\ sequence_xml' =
                      <<PrimaryGroup(params_to_vary, nbr_of_sequence, num_trees, sc,
                                     Offset(multi_sol, found), values, seed)>>
                      \o (IF multi_sol /\ ~found.none /\ Len(found.list) > 0
                          THEN <<SoilGroup(found)>>
                          ELSE <<>>)
    /\ UNCHANGED <<runVars, position_file, soilInputs, nbr_of_sequence, params_to_vary,
                   seed, coeff_diff>>

\* prepare_simulation.py is started on a configuration
GenInit ==
    /\ RunIdle
    /\ tree_count = <<>>
    /\ scales = <<>>
    /\ discovered = NotCalled
    /\ gen_pc = "coeff"
    /\ coeff_diff = NoFile
    /\ sequence_xml = NoFile
    /\ temp_values = <<>>
    /\ gen_result = "none"
    /\ position_file \in PrepPositionFiles
    /\ multi_sol \in BOOLEAN
    /\ soil_root \in PrepSoilRoots
    /\ phase_xml \in PrepPhaseFiles
    /\ ~phase_xml.exists => Len(soil_root.entries) <= 1
    /\ nbr_of_sequence \in 0..MaxTrials
    /\ params_to_vary \in [scale : BOOLEAN, soil_temperature : BOOLEAN,
                           tree_temperature : BOOLEAN, chlorophyl : BOOLEAN,
                           water_thickness : BOOLEAN]
    /\ seed \in Seeds

GenNext == UpdateCoeffDiffXml \/ CreateSequenceXml

\* the preparation of a simulation: coeff_diff.xml, then sequence.xml
GenSpec == GenInit /\ [][GenNext]_vars

(* ------------------------------- claims ------------------------------- *)
Variants == 1..Len(soils)
Ended == pc \in {"returned", "raised"}

\* C1: with at least one variant, restore_original_maket_xml has run exactly
\* once whenever run_for_all_soils has ended, by return or by exception
C1_RestoreOnEveryExit == (Ended /\ soils # <<>>) => nRestore = 1

\* C2: every result folder a variant's successful sequence run wrote is still
\* held by some folder: no later sequence run and no relocation destroyed it
C2_OutputsNeverLost ==
    \A k \in Variants :
        attempt[k].seq = <<0>> =>
            \A n \in 0..(MaxSeq - 1) : \E d \in DOMAIN fs : fs[d] = Content(k - 1, n)

\* C3: a folder whose name embeds a variant's name holds what that variant's
\* sequence run produced, never another variant's output
C3_NamedAfterOwnVariant ==
    \A d \in DOMAIN fs : \A k \in Variants :
        StartsWith(d, SeqPrefix \o soils[k] \o <<"_">>) => fs[d].by = k - 1

\* C4: when run_for_all_soils has ended, every variant of the list was
\* attempted (its patch was called), whatever the earlier variants did
C4_EveryVariantAttempted ==
    Ended => \A k \in Variants : attempt[k].patch # "none"

\* C5: run_for_all_soils returns True only if for every variant the patch
\* succeeded and run_simulation and run_sequence both returned 0
C5_TrueOnlyIfAllSucceeded ==
    (pc = "returned" /\ soils # <<>> /\ result = "True") =>
        \A k \in Variants :
            /\ attempt[k].patch = "ok"
            /\ attempt[k].sim = <<0>>
            /\ attempt[k].seq = <<0>>

C5_Witness ==
    /\ pc = "returned"
    /\ Len(soils) = 2
    /\ result = "True"

\* C6: a variant whose run_sequence timed out has its child killed, a
\* non-zero result and all_successful False, and a return of
\* run_for_all_soils comes after one restore and one final sweep
C6_SequenceTimeoutHandled ==
    \A k \in Variants :
        attempt[k].timeout = "seq" =>
            /\ attempt[k].seq \notin {<<>>, <<0>>}
            /\ ~all_successful
            /\ (pc = "sleep" /\ i = k - 1) => child = Killed
            /\ pc = "returned" => (nRestore = 1 /\ nSweep = 1 /\ result = "False")

C6_Witness ==
    /\ pc = "returned"
    /\ \E k \in Variants : attempt[k].timeout = "seq"

\* C7: the step that takes run_simulation out of its wait while the child
\* still runs (the timeout) kills the child, records a non-zero result, marks
\* the variant failed and goes on to the next variant; the sequence run of
\* such a variant never starts
C7_SingleTimeoutHandled ==
    /\ [][(pc = "single_wait" /\ pc' # "single_wait" /\ child.status = "running"
            /\ soils # <<>>) =>
              /\ child' = Killed
              /\ attempt'[i + 1].sim \notin {<<>>, <<0>>}
              /\ ~all_successful'
              /\ pc' = "loop"
              /\ i' = i + 1]_vars
    /\ [](\A k \in Variants : attempt[k].timeout = "sim" => attempt[k].seq = <<>>)

C7_Witness ==
    /\ pc = "loop"
    /\ i = 1
    /\ Len(soils) = 2
    /\ attempt[1].timeout = "sim"

\* C8: the sequence phase always ends: run_sequence returns whatever the
\* child does
C8_SequencePhaseReturns == InSequenceRun ~> ~InSequenceRun

\* C9: after run_for_all_soils returned from two or more variants, no folder
\* starting with sequence_ lacks a variant name
C9_AllQualifiedAfterReturn ==
    (pc = "returned" /\ Len(soils) >= 2) => UnqualifiedItems(fs, soils) = {}

\* C10: a successful patch leaves a backup in place, and an existing backup
\* never changes its content
C10_BackupOnce ==
    [][/\ (pc = "loop" /\ pc' = "relocate") => backup' # NoFile
       /\ backup # NoFile => backup' = backup]_vars

C10_Witness ==
    /\ pc = "relocate"
    /\ i = 1
    /\ attempt[1].patch = "ok"
    /\ maket # backup
    /\ backup # NoFile

(* ---------------- claims on the preparation scripts ------------------- *)
\* the entries of the primary group whose property path ends with `path`
EntriesOf(path) ==
    SelectSeq(sequence_xml[1].entries, LAMBDA e : e.propertyName.path = path)
\* whether sequence.xml was written
Written == sequence_xml # NoFile
\* the subdirectories of the soil root in listing order
Subdirectories(root) == SelectSeq(root.entries, LAMBDA e : e.isdir)
\* whether the manifest declares bands
ManifestAvailable == phase_xml.exists /\ phase_xml.bands > 0
\* the valid soil variants of the configuration, in listing order
ValidVariants ==
    IF soil_root.exists /\ ManifestAvailable
    THEN Names(SelectSeq(Subdirectories(soil_root), LAMBDA e : e.txt = phase_xml.bands))
    ELSE <<>>
\* the offset of the index resolution policy
ExpectedOffset == IF multi_sol THEN Len(ValidVariants) ELSE 0

\* C11: with both files written, the LambertianMulti slot each Cab and Cw
\* entry points at holds the leaf entry of its entity, never a soil entry
C11_LeafSlotsAfterSoilSlots ==
    (Written /\ coeff_diff # NoFile) =>
        \A path \in {"Cab", "Cw"} :
            \A k \in DOMAIN EntriesOf(path) :
                LET slot == EntriesOf(path)[k].propertyName.index + 1
                IN /\ slot \in DOMAIN coeff_diff[1].lambertian
                   /\ coeff_diff[1].lambertian[slot] = LeafIdent(k - 1)

\* C12: with chlorophyll (water thickness) enabled the descriptor holds one
\* Cab (Cw) entry per counted entity, the entry of entity i indexed i + offset,
\* offset being the number of valid variants in multi-soil mode and 0 otherwise
C12_ProspectIndexIsEntityPlusOffset ==
    Written =>
        /\ params_to_vary.chlorophyl =>
              /\ Len(EntriesOf("Cab")) = tree_count[1]
              /\ \A k \in DOMAIN EntriesOf("Cab") :
                    EntriesOf("Cab")[k].propertyName.index = (k - 1) + ExpectedOffset
        /\ params_to_vary.water_thickness =>
              /\ Len(EntriesOf("Cw")) = tree_count[1]
              /\ \A k \in DOMAIN EntriesOf("Cw") :
                    EntriesOf("Cw")[k].propertyName.index = (k - 1) + ExpectedOffset
        /\ ~multi_sol =>
              \A path \in {"Cab", "Cw"} : \A k \in DOMAIN EntriesOf(path) :
                  EntriesOf(path)[k].propertyName.index = k - 1

\* two entities behind one valid variant, and the same with the mode off
C12_Witness ==
    /\ Written
    /\ params_to_vary.chlorophyl /\ params_to_vary.water_thickness
    /\ tree_count = <<2>>
    /\ multi_sol
    /\ Len(ValidVariants) = 1
    /\ Len(soil_root.entries) = 2

\* C13: the descriptor holds the group group_soil exactly when multi-soil
\* mode is on and there is a valid variant; the group then holds two entries,
\* the idents soil_<name> in discovery order and the phase indices 0..n-1
C13_SoilGroupIffVariants ==
    Written =>
        /\ Len(sequence_xml) = (IF multi_sol /\ Len(ValidVariants) >= 1 THEN 2 ELSE 1)
        /\ Len(sequence_xml) = 2 =>
              /\ sequence_xml[2].groupName = "group_soil"
              /\ Len(sequence_xml[2].entries) = 2
              /\ sequence_xml[2].entries[1].propertyName.path = "ident"
              /\ Split(sequence_xml[2].entries[1].args) =
                    [k \in DOMAIN ValidVariants |->
                        <<"s", "o", "i", "l", "_">> \o ValidVariants[k]]
              /\ sequence_xml[2].entries[2].propertyName.path = "indexFctPhase"
              /\ Split(sequence_xml[2].entries[2].args) =
                    [k \in DOMAIN ValidVariants |-> NumStr(k - 1)]

C13_Witness ==
    /\ Written
    /\ Len(sequence_xml) = 2
    /\ Len(ValidVariants) = 2

\* C14: every entry of the primary group holds nbr_of_sequence values and
\* both entries of the soil group hold one value per variant
C14_SeriesLengths ==
    Written =>
        /\ \A k \in DOMAIN sequence_xml[1].entries :
              Len(Split(sequence_xml[1].entries[k].args)) = nbr_of_sequence
        /\ Len(sequence_xml) = 2 =>
              \A k \in DOMAIN sequence_xml[2].entries :
                  Len(Split(sequence_xml[2].entries[k].args)) = Len(ValidVariants)

\* every flag on, two entities, two trials, one variant
C14_Witness ==
    /\ Written
    /\ params_to_vary = [scale |-> TRUE, soil_temperature |-> TRUE,
                         tree_temperature |-> TRUE, chlorophyl |-> TRUE,
                         water_thickness |-> TRUE]
    /\ tree_count = <<2>>
    /\ nbr_of_sequence = 2
    /\ Len(sequence_xml) = 2
    /\ Len(sequence_xml[1].entries) = 15

\* C15: in every trial every leaf and trunk temperature of the table is below
\* the soil temperature of that trial; in the descriptor the value of a leaf
\* (trunk) series at trial t lies 1 to 10 K (0.5 to 5 K) below the value of the
\* soil series at trial t
C15_TreesCoolerThanSoil ==
    /\ \A t \in DOMAIN temp_values : \A c \in 2..Len(temp_values[t]) :
          Decimal(temp_values[t][c]) < Decimal(temp_values[t][1])
    /\ (Written /\ params_to_vary.soil_temperature /\ params_to_vary.tree_temperature) =>
          LET series == EntriesOf("meanT")
              T == tree_count[1]
          IN \A t \in 1..nbr_of_sequence : \A k \in 1..T :
                LET soil == Decimal(Split(series[1].args)[t])
                    leaf == Decimal(Split(series[1 + k].args)[t])
                    trunk == Decimal(Split(series[1 + T + k].args)[t])
                IN /\ leaf < soil /\ soil - leaf \in 10..100
                   /\ trunk < soil /\ soil - trunk \in 5..50

\* two entities, two trials with different soil temperatures
C15_Witness ==
    /\ Written
    /\ params_to_vary.soil_temperature /\ params_to_vary.tree_temperature
    /\ tree_count = <<2>>
    /\ nbr_of_sequence = 2
    /\ temp_values[1][1] # temp_values[2][1]

\* the entries of the tree temperatures: all meanT entries but the soil's
TreeSeries ==
    IF params_to_vary.soil_temperature
    THEN Tail(EntriesOf("meanT")) ELSE EntriesOf("meanT")

\* C16: with tree_temperature on the descriptor holds two temperature entries
\* per entity; the series of leaf i has ThermalFunction index 1+2i and that of
\* trunk i index 2+2i, all indices differ and none is 0, and the
\* ThermalFunction at that index in coeff_diff.xml is Temp_leaf_i, Temp_trunk_i
C16_InterleavedThermalIndices ==
    (Written /\ params_to_vary.tree_temperature) =>
        LET T == tree_count[1]
        IN /\ Len(TreeSeries) = 2 * T
           /\ \A k \in 1..T :
                 /\ Split(TreeSeries[k].args) =
                       [t \in DOMAIN temp_values |-> temp_values[t][1 + k]]
                 /\ TreeSeries[k].propertyName.index = 1 + 2 * (k - 1)
                 /\ Split(TreeSeries[T + k].args) =
                       [t \in DOMAIN temp_values |-> temp_values[t][1 + T + k]]
                 /\ TreeSeries[T + k].propertyName.index = 2 + 2 * (k - 1)
                 /\ coeff_diff # NoFile =>
                       /\ coeff_diff[1].temperatures[1 + 2 * (k - 1) + 1] = TempLeaf(k - 1)
                       /\ coeff_diff[1].temperatures[2 + 2 * (k - 1) + 1] = TempTrunk(k - 1)
           /\ \A k, m \in DOMAIN TreeSeries :
                 /\ TreeSeries[k].propertyName.index # 0
                 /\ k # m => TreeSeries[k].propertyName.index #
                             TreeSeries[m].propertyName.index

C16_Witness ==
    /\ Written
    /\ coeff_diff # NoFile
    /\ params_to_vary.tree_temperature /\ params_to_vary.soil_temperature
    /\ tree_count = <<2>>
    /\ nbr_of_sequence = 2

\* a line is a record of the position source: its first field is the literal
\* "0" and it has at least 7 fields
Qualifies(line) == Len(line) >= 7 /\ Head(line) = Zero
QualifyingLines(file) == {k \in 1..Len(file.lines) : Qualifies(file.lines[k])}

\* C17: the entity count count_trees_in_position_file returns is the number
\* of qualifying lines of the position file
C17_EntityCountIsQualifyingLines ==
    tree_count # <<>> => tree_count[1] = Cardinality(QualifyingLines(position_file))

\* C18: discovery in multi-soil mode returns the subdirectories of the soil
\* root whose .txt file count equals the number of declared bands, in listing
\* order, and names every other subdirectory in a diagnostic; without a root
\* or a manifest it returns nothing
C18_DiscoveryReturnsMatchingFolders ==
    (discovered.called /\ multi_sol) =>
        IF soil_root.exists /\ ManifestAvailable
        THEN LET dirs == Subdirectories(soil_root)
             IN /\ discovered.list =
                      Names(SelectSeq(dirs, LAMBDA e : e.txt = phase_xml.bands))
                /\ discovered.warned =
                      {dirs[k].name : k \in {x \in DOMAIN dirs :
                                                dirs[x].txt # phase_xml.bands}}
        ELSE discovered.list = <<>>

\* a mismatching folder listed first is excluded and the next one is returned
C18_Witness ==
    /\ multi_sol
    /\ discovered.list = << <<"b">> >>
    /\ discovered.warned = {<<"a">>}

\* no position file, no qualifying record, or no positive trial count
StructuralFailure ==
    \/ ~position_file.exists
    \/ QualifyingLines(position_file) = {}
    \/ nbr_of_sequence < 1

\* C19: when create_sequence_xml has ended, sequence.xml was written exactly
\* when there was no structural failure
C19_WrittenIffNoStructuralFailure ==
    gen_pc = "done" => (Written <=> ~StructuralFailure)

(* ------------------- claims on the order of the phases ---------------- *)
\* a variant's iteration is over: its patch failed, or its single run failed,
\* or its sequence run returned
Settled(rec) ==
    \/ rec.patch = "failed"
    \/ rec.patch = "ok" /\ rec.sim \notin {<<>>, <<0>>}
    \/ rec.patch = "ok" /\ rec.sim = <<0>> /\ rec.seq # <<>>

\* C20: a variant's single run is under way only after its patch succeeded,
\* its sequence run only after its single run returned 0; on either path the
\* sequence run is entered from a run_simulation whose child exited with 0;
\* and a variant is patched while no child runs and only after every earlier
\* variant's iteration is over
C20_PhaseOrder ==
    /\ []((pc \in {"relocate", "rename_prev", "single", "single_wait"} /\ soils # <<>>) =>
            /\ attempt[i + 1].patch = "ok"
            /\ attempt[i + 1].sim = <<>>)
    /\ []((pc \in {"sequence", "seq_read", "seq_wait"} /\ soils # <<>>) =>
            /\ attempt[i + 1].patch = "ok"
            /\ attempt[i + 1].sim = <<0>>
            /\ attempt[i + 1].seq = <<>>)
    /\ [][(pc' = "sequence" /\ pc # "sequence") =>
            (pc = "single_wait" /\ child = Exited(0))]_vars
    /\ [][\A k \in Variants :
            (attempt[k].patch = "none" /\ attempt'[k].patch # "none") =>
                /\ k = i + 1
                /\ child.status # "running"
                /\ \A j \in 1..(k - 1) : Settled(attempt[j])]_vars

\* the second variant's sequence run, after the first variant's returned
C20_Witness ==
    /\ Len(soils) = 2
    /\ i = 1
    /\ pc = "seq_read"
    /\ attempt[1].seq # <<>>
    /\ attempt[2].sim = <<0>>

(* ---------------- claims on relocation failures and flags ------------- *)
\* C21: a folder whose relocation failed in rename_sequence_folders
\* (safe_rename_directory returned False) is still in place, holding what it
\* held then, when check_and_fix_sequence_folders is entered
C21_FailedRelocationKeptForSweep ==
    pc = "sweep" =>
        \A r \in unmoved : r.name \in DOMAIN fs /\ fs[r.name] = r.content

\* 1 for an enabled flag, 0 otherwise
Bit(flag) == IF flag THEN 1 ELSE 0
\* the property paths a flag stands for, given the entity count N alone
ScalePaths(N) ==
    [k \in 1..(3 * N) |->
        [path |-> <<"xscale", "yscale", "zscale">>[((k - 1) % 3) + 1],
         index |-> (k - 1) \div 3]]
SoilTemperaturePaths == <<[path |-> "meanT", index |-> 0]>>
TreeTemperaturePaths(N) ==
    [k \in 1..(2 * N) |->
        [path |-> "meanT",
         index |-> IF k <= N THEN 1 + 2 * (k - 1) ELSE 2 + 2 * (k - N - 1)]]
ProspectPaths(path, N) ==
    [k \in 1..N |-> [path |-> path, index |-> (k - 1) + ExpectedOffset]]
\* the paths of an enabled flag, nothing for a disabled one
Gated(flag, paths) == IF flag THEN paths ELSE <<>>

\* C22: with readable scales the primary group holds, flag by flag, the
\* entries of each enabled flag and nothing else: 3N for scale, 1 for
\* soil_temperature, 2N for tree_temperature, N for chlorophyl, N for
\* water_thickness, the property paths of a flag's entries depending on no
\* other flag
C22_FlagsGateIndependently ==
    (Written /\ (params_to_vary.scale => Len(scales[1]) = tree_count[1])) =>
        LET N == tree_count[1]
            entries == sequence_xml[1].entries
        IN /\ Len(entries) =
                 3 * N * Bit(params_to_vary.scale)
                 + Bit(params_to_vary.soil_temperature)
                 + 2 * N * Bit(params_to_vary.tree_temperature)
                 + N * Bit(params_to_vary.chlorophyl)
                 + N * Bit(params_to_vary.water_thickness)
           /\ [k \in DOMAIN entries |-> entries[k].propertyName] =
                 Gated(params_to_vary.scale, ScalePaths(N))
                 \o Gated(params_to_vary.soil_temperature, SoilTemperaturePaths)
                 \o Gated(params_to_vary.tree_temperature, TreeTemperaturePaths(N))
                 \o Gated(params_to_vary.chlorophyl, ProspectPaths("Cab", N))
                 \o Gated(params_to_vary.water_thickness, ProspectPaths("Cw", N))

\* scale, tree_temperature and water_thickness on, the two others off, two
\* entities with readable scales
C22_Witness ==
    /\ Written
    /\ params_to_vary = [scale |-> TRUE, soil_temperature |-> FALSE,
                         tree_temperature |-> TRUE, chlorophyl |-> FALSE,
                         water_thickness |-> TRUE]
    /\ tree_count = <<2>>
    /\ Len(scales[1]) = 2
    /\ Len(sequence_xml[1].entries) = 12

(* -------------------- claims on the sequence child -------------------- *)
\* the step reads the next line of the child's output and stays in run_sequence
ReadsLine ==
    /\ pc = "seq_read"
    /\ pc' \in {"seq_read", "seq_wait"}
    /\ pipe # <<>>
    /\ pipe' = Tail(pipe)

\* C23: reading a line writes one newline to the child's stdin when the line
\* holds a prompt and nothing otherwise; stdin is written at no other step; a
\* line with the completion marker ends the reading with a terminate call,
\* and after it nothing is written and no further line is read
C23_StdinOnlyAcknowledges ==
    [][/\ ReadsLine =>
            /\ acks' = acks + (IF Head(pipe) \in {"prompt", "both"} THEN 1 ELSE 0)
            /\ (pc' = "seq_wait") <=> (Head(pipe) \in {"marker", "both"})
            /\ child' \in {child, Terminated}
            /\ Head(pipe) \notin {"marker", "both"} => child' = child
       /\ acks' > acks => ReadsLine
       /\ pc = "seq_wait" => (acks' \in {acks, 0} /\ pipe' \in {pipe, <<>>})]_vars

\* a line holding a prompt and the marker was acknowledged once and ended the
\* reading, the line printed after it stays unread
C23_Witness ==
    /\ pc = "seq_wait"
    /\ acks = 1
    /\ emitted = 2
    /\ pipe # <<>>

\* C24: a sequence run that read the completion marker while its child was
\* still running, and ended the child with terminate(), is recorded as
\* succeeded when process.wait returns: True on the single path, a result of
\* 0 with all_successful untouched on the multi-variant path
C24_MarkerMeansSuccess ==
    [][(pc = "seq_wait" /\ pc' # "seq_wait" /\ child = Terminated) =>
          IF soils = <<>>
          THEN result' = "True"
          ELSE /\ attempt'[i + 1].seq = <<0>>
               /\ all_successful' = all_successful]_vars

(* ------------------- claims on the soil reference file ---------------- *)
\* run_for_all_soils has just entered its loop: nothing was patched yet
Entered == pc = "loop" /\ i = 0 /\ soils # <<>> /\ attempt[1].patch = "none"

\* C25: whatever maket.xml holds when run_for_all_soils enters the
\* multi-variant path, it holds the same when run_for_all_soils has returned
C25_MaketAsAtStart ==
    \A c \in {OrigIdent} \cup PrepIdents :
        []((Entered /\ maket = c) => [](pc = "returned" => maket = c))

(* --------------------------- claims on main --------------------------- *)
\* C26: main has called save_tiff_and_props only if the export is configured
\* and the run was successful (success is True), on the multi-soil path and
\* on main's own path
C26_ExportOnlyAfterSuccess ==
    exported => (save_result_to_tif_json /\ result = "True")

(* --------------- further claims on the preparation scripts ------------ *)
\* C27: in every trial the trunk temperature of every entity lies between
\* the leaf temperature of that entity and the soil temperature
C27_TrunkBetweenLeafAndSoil ==
    \A t \in DOMAIN temp_values : \A k \in 1..tree_count[1] :
        LET soil == Decimal(temp_values[t][1])
            leaf == Decimal(temp_values[t][1 + k])
            trunk == Decimal(temp_values[t][1 + tree_count[1] + k])
        IN leaf <= trunk /\ trunk <= soil

\* C28: read_scale_from_positions returns one scale value per entity that
\* count_trees_in_position_file counts, and create_sequence_xml never ends in
\* the IndexError of scales[i]
C28_OneScalePerEntity ==
    /\ (tree_count # <<>> /\ scales # <<>>) => Len(scales[1]) = tree_count[1]
    /\ gen_result # "raised"

\* C29: with both files written, the phase index paired with the k-th soil
\* identity of the soil group is the position (from 0) of the LambertianMulti
\* entry with that ident in coeff_diff.xml
C29_PhaseIndexIsRegistryPosition ==
    (Written /\ coeff_diff # NoFile /\ Len(sequence_xml) = 2) =>
        LET identifiers == Split(sequence_xml[2].entries[1].args)
            indices == Split(sequence_xml[2].entries[2].args)
            registry == coeff_diff[1].lambertian
        IN \A k \in DOMAIN identifiers :
              /\ Decimal(indices[k]) + 1 \in DOMAIN registry
              /\ registry[Decimal(indices[k]) + 1] = identifiers[k]

(* ------------------- claims on the qualification test ----------------- *)
\* the name is sequence_<variant>_<number> for a variant of the list
IsQualifiedName(d) ==
    \E k \in DOMAIN soils : \E n \in 1..Len(Digits) :
        d = QualifiedName(soils[k], <<Digits[n]>>)

\* C30: when check_and_fix_sequence_folders lists the sequence directory,
\* every folder sequence_<number> the engine wrote is taken as unqualified,
\* and a folder is left out only if its name is sequence_<variant>_<number>
C30_FreshOutputIsUnqualified ==
    [][(pc = "sweep" /\ pc' = "fix") =>
          \A d \in DOMAIN fs :
              /\ (\E n \in 0..(MaxSeq - 1) : d = EngineDir(n)) => d \in todo'
              /\ d \notin todo' => IsQualifiedName(d)]_vars
=============================================================================
